---- MODULE Spec2Model ----
(***************************************************************************)
(* Model of the AutoTrader decision engine of src/autotrader.cc.           *)
(*                                                                         *)
(* The engine is single threaded: each inbound message is handled to       *)
(* completion by one handler.  Every handler is one action.  The engine's  *)
(* member variables are the variables of the same name; `sent' holds the   *)
(* gateway commands the last handler issued, `lastEvent' the message it    *)
(* handled, and `orders' is the exchange's view of the orders the engine   *)
(* inserted (volume left, cancel requested, terminal), which decides what  *)
(* fills and order statuses the exchange can deliver; `hedgeRequested' is   *)
(* the signed sum of the volumes of all hedge orders sent so far.           *)
(*                                                                         *)
(* unsigned long arithmetic is computed modulo ULONG_MODULUS.  TLC's       *)
(* integers are 32 bit wide, so the modulus is 2^24 instead of 2^64; every *)
(* book price, order volume and id of the model is below 2^11, so a value  *)
(* wraps in the model exactly when it wraps in the program, and wrapped    *)
(* values compare greater than all unwrapped ones in both.  (The price of  *)
(* a hedge order is a constant and passes through no arithmetic.)          *)
(***************************************************************************)
EXTENDS Integers, Sequences, FiniteSets, TLC

VARIABLES mAskId, mBidId, mAskPrice, mBidPrice, mAsks, mBids,
          futAskPrice, futAskVol, futBidPrice, futBidVol,
          etfPosition, mNextMessageId,
          mMakeAskAwaitingCancelId, mMakeBidAwaitingCancelId,
          sent, lastEvent, orders, hedgeRequested

engineVars == <<mAskId, mBidId, mAskPrice, mBidPrice, mAsks, mBids,
                futAskPrice, futAskVol, futBidPrice, futBidVol,
                etfPosition, mNextMessageId,
                mMakeAskAwaitingCancelId, mMakeBidAwaitingCancelId>>

vars == <<mAskId, mBidId, mAskPrice, mBidPrice, mAsks, mBids,
          futAskPrice, futAskVol, futBidPrice, futBidVol,
          etfPosition, mNextMessageId,
          mMakeAskAwaitingCancelId, mMakeBidAwaitingCancelId,
          sent, lastEvent, orders, hedgeRequested>>

(***************************************************************************)
(* Program constants.                                                      *)
(***************************************************************************)
LOT_SIZE == 10
POSITION_LIMIT == 100
TICK_SIZE_IN_CENTS == 100
BID_ASK_CLEARANCE == 1 * TICK_SIZE_IN_CENTS
FUT_CLEARANCE == 1 * TICK_SIZE_IN_CENTS
\* MINIMUM_BID and MAXIMUM_ASK of the SDK's types header
MINIMUM_BID == 1
MAXIMUM_ASK == 2147483647
MIN_BID_NEARST_TICK ==
    ((MINIMUM_BID + TICK_SIZE_IN_CENTS) \div TICK_SIZE_IN_CENTS) * TICK_SIZE_IN_CENTS
MAX_ASK_NEAREST_TICK == (MAXIMUM_ASK \div TICK_SIZE_IN_CENTS) * TICK_SIZE_IN_CENTS

\* the number of values of an unsigned long (see the note at the top)
ULONG_MODULUS == 16777216

\* conversion of an integer expression to unsigned long
ULong(x) == x % ULONG_MODULUS

\* std::max / std::min on unsigned long
StdMax(a, b) == IF a < b THEN b ELSE a
StdMin(a, b) == IF b < a THEN b ELSE a

(***************************************************************************)
(* Bounds of the model, and the inputs the messages are drawn from.        *)
(***************************************************************************)
\* message ids are handed out up to MaxId
MaxId == 2
\* ... and up to MaxDeepId where only the ask side is quoted (SpecDeep)
MaxDeepId == 6
\* ... and up to MaxCrossId where the books cross (SpecCross)
MaxCrossId == 4
\* fills are delivered while |etfPosition| stays within PosCap
PosCap == 130

\* a book side's level 0 is <<price, volume>>; price 0 = no quote
NoQuote == <<0, 0>>
Quote(price) == <<price, LOT_SIZE>>
\* reference books <<ask, bid>>: nothing quoted, the ask alone, and both
\* sides two ticks higher
FutBooks == {<<NoQuote, NoQuote>>,
             <<Quote(400), NoQuote>>,
             <<Quote(600), Quote(400)>>}
\* primary books <<ask, bid>>
EtfBooks == {<<a, b>> : a \in {NoQuote, Quote(500), Quote(700)},
                        b \in {NoQuote, Quote(300)}}
\* volumes of partial fills (a fill of all that is left is always possible)
FillVols == {30}

(***************************************************************************)
(* Gateway commands.                                                       *)
(***************************************************************************)
InsertCmd(id, side, price, volume, lifespan) ==
    [cmd |-> "insert", id |-> id, side |-> side, price |-> price,
     volume |-> volume, lifespan |-> lifespan]
CancelCmd(id) ==
    [cmd |-> "cancel", id |-> id, side |-> "-", price |-> 0,
     volume |-> 0, lifespan |-> "-"]
HedgeCmd(id, side, price, volume) ==
    [cmd |-> "hedge", id |-> id, side |-> side, price |-> price,
     volume |-> volume, lifespan |-> "-"]

SendInsertOrder(e, id, side, price, volume, lifespan) ==
    [e EXCEPT !.out = Append(@, InsertCmd(id, side, price, volume, lifespan))]
SendCancelOrder(e, id) ==
    [e EXCEPT !.out = Append(@, CancelCmd(id))]
SendHedgeOrder(e, id, side, price, volume) ==
    [e EXCEPT !.out = Append(@, HedgeCmd(id, side, price, volume))]

(***************************************************************************)
(* The engine's members as one record, on which the handlers compute;      *)
(* `out' collects the commands of the running handler.                     *)
(***************************************************************************)
Engine ==
    [mAskId |-> mAskId, mBidId |-> mBidId,
     mAskPrice |-> mAskPrice, mBidPrice |-> mBidPrice,
     mAsks |-> mAsks, mBids |-> mBids,
     futAskPrice |-> futAskPrice, futAskVol |-> futAskVol,
     futBidPrice |-> futBidPrice, futBidVol |-> futBidVol,
     etfPosition |-> etfPosition, mNextMessageId |-> mNextMessageId,
     mMakeAskAwaitingCancelId |-> mMakeAskAwaitingCancelId,
     mMakeBidAwaitingCancelId |-> mMakeBidAwaitingCancelId,
     out |-> <<>>]

(***************************************************************************)
(* Sizing and pricing.                                                     *)
(***************************************************************************)
maxAskVol(e) == ULong(POSITION_LIMIT + e.etfPosition) \div 2

maxBidVol(e) == ULong(POSITION_LIMIT - e.etfPosition) \div 2

\* as getMakeAskPrice, but one clearance above the reference whatever the
\* primary book's best ask
getMakeAskPriceReferenceOnly(e, etfBestAskPrice) ==
    ULong(e.futAskPrice + FUT_CLEARANCE)

getMakeAskPrice(e, etfBestAskPrice) ==
    IF etfBestAskPrice = 0
    THEN ULong(e.futAskPrice + 3 * FUT_CLEARANCE)
    ELSE StdMax(ULong(e.futAskPrice + FUT_CLEARANCE),
                ULong(etfBestAskPrice - BID_ASK_CLEARANCE))

getMakeBidPrice(e, etfBestBidPrice) ==
    IF etfBestBidPrice = 0
    THEN ULong(e.futBidPrice - 3 * TICK_SIZE_IN_CENTS)
    ELSE StdMin(ULong(e.futBidPrice - FUT_CLEARANCE),
                ULong(etfBestBidPrice + BID_ASK_CLEARANCE))

\* as makeAsk, but making no ask while the primary book has none
makeAskNeedsBestAsk(e, etfBestAskPrice) ==
    LET makeAskVol == maxAskVol(e)
        price == getMakeAskPrice(e, etfBestAskPrice)
        id == e.mNextMessageId + 1
        e1 == [e EXCEPT !.mAskPrice = price,
                        !.mNextMessageId = id,
                        !.mAskId = id]
        e2 == SendInsertOrder(e1, id, "SELL", price, makeAskVol, "GOOD_FOR_DAY")
    IN  IF makeAskVol = 0 \/ etfBestAskPrice = 0 THEN e
        ELSE [e2 EXCEPT !.mAsks = @ \cup {id},
                        !.mMakeAskAwaitingCancelId = 0]

makeAsk(e, etfBestAskPrice) ==
    LET makeAskVol == maxAskVol(e)
        price == getMakeAskPrice(e, etfBestAskPrice)
        id == e.mNextMessageId + 1
        e1 == [e EXCEPT !.mAskPrice = price,
                        !.mNextMessageId = id,
                        !.mAskId = id]
        e2 == SendInsertOrder(e1, id, "SELL", price, makeAskVol, "GOOD_FOR_DAY")
    IN  IF makeAskVol = 0 THEN e
        ELSE [e2 EXCEPT !.mAsks = @ \cup {id},
                        !.mMakeAskAwaitingCancelId = 0]

makeBid(e, etfBestBidPrice) ==
    LET makeBidVol == maxBidVol(e)
        price == getMakeBidPrice(e, etfBestBidPrice)
        id == e.mNextMessageId + 1
        e1 == [e EXCEPT !.mBidPrice = price,
                        !.mNextMessageId = id,
                        !.mBidId = id]
        e2 == SendInsertOrder(e1, id, "BUY", price, makeBidVol, "GOOD_FOR_DAY")
    IN  IF makeBidVol = 0 THEN e
        ELSE [e2 EXCEPT !.mBids = @ \cup {id},
                        !.mMakeBidAwaitingCancelId = 0]

(***************************************************************************)
(* Order lifecycle.                                                        *)
(***************************************************************************)
\* as OrderStatusMessageHandler, but a terminal status frees the ask side
\* without comparing its id with mAskId
OrderStatusNoIdCheck(e, clientOrderId, fillVolume, remainingVolume, fees) ==
    IF remainingVolume = 0
    THEN [e EXCEPT !.mAskId = 0,
                   !.mAsks = @ \ {clientOrderId},
                   !.mBids = @ \ {clientOrderId}]
    ELSE e

\* as OrderStatusMessageHandler, but a terminal status leaves the sides'
\* current ids as they are
OrderStatusKeepsCurrent(e, clientOrderId, fillVolume, remainingVolume, fees) ==
    IF remainingVolume = 0
    THEN [e EXCEPT !.mAsks = @ \ {clientOrderId},
                   !.mBids = @ \ {clientOrderId}]
    ELSE e

\* as OrderStatusMessageHandler, but taking every status for a terminal one
OrderStatusAnyRemaining(e, clientOrderId, fillVolume, remainingVolume, fees) ==
    LET e1 == IF clientOrderId = e.mAskId THEN [e EXCEPT !.mAskId = 0]
              ELSE IF clientOrderId = e.mBidId THEN [e EXCEPT !.mBidId = 0]
              ELSE e
    IN  [e1 EXCEPT !.mAsks = @ \ {clientOrderId},
                   !.mBids = @ \ {clientOrderId}]

OrderStatusMessageHandler(e, clientOrderId, fillVolume, remainingVolume, fees) ==
    IF remainingVolume = 0
    THEN LET e1 == IF clientOrderId = e.mAskId THEN [e EXCEPT !.mAskId = 0]
                   ELSE IF clientOrderId = e.mBidId THEN [e EXCEPT !.mBidId = 0]
                   ELSE e
         IN  [e1 EXCEPT !.mAsks = @ \ {clientOrderId},
                        !.mBids = @ \ {clientOrderId}]
    ELSE e

\* as ErrorMessageHandler, but looking the id up among the asks only
ErrorAsksOnly(e, clientOrderId) ==
    IF clientOrderId # 0 /\ clientOrderId \in e.mAsks
    THEN OrderStatusMessageHandler(e, clientOrderId, 0, 0, 0)
    ELSE e

ErrorMessageHandler(e, clientOrderId) ==
    IF clientOrderId # 0 /\ (clientOrderId \in e.mAsks \/ clientOrderId \in e.mBids)
    THEN OrderStatusMessageHandler(e, clientOrderId, 0, 0, 0)
    ELSE e

\* as OrderFilledMessageHandler, but hedging a filled bid with a buy as well
OrderFilledHedgesWithBuy(e, clientOrderId, price, volume) ==
    IF clientOrderId \in e.mAsks \/ clientOrderId \in e.mBids
    THEN LET id == e.mNextMessageId + 1
             e1 == [e EXCEPT !.etfPosition =
                                IF clientOrderId \in e.mAsks
                                THEN @ - volume ELSE @ + volume,
                             !.mNextMessageId = id]
         IN  SendHedgeOrder(e1, id, "BUY", MAX_ASK_NEAREST_TICK, volume)
    ELSE e

\* as OrderFilledMessageHandler, but leaving the hedge to a later tick
OrderFilledNoHedge(e, clientOrderId, price, volume) ==
    IF clientOrderId \in e.mAsks
    THEN [e EXCEPT !.etfPosition = @ - volume]
    ELSE IF clientOrderId \in e.mBids
    THEN [e EXCEPT !.etfPosition = @ + volume]
    ELSE e

OrderFilledMessageHandler(e, clientOrderId, price, volume) ==
    IF clientOrderId \in e.mAsks
    THEN LET id == e.mNextMessageId + 1
             e1 == [e EXCEPT !.etfPosition = @ - volume, !.mNextMessageId = id]
         IN  SendHedgeOrder(e1, id, "BUY", MAX_ASK_NEAREST_TICK, volume)
    ELSE IF clientOrderId \in e.mBids
    THEN LET id == e.mNextMessageId + 1
             e1 == [e EXCEPT !.etfPosition = @ + volume, !.mNextMessageId = id]
         IN  SendHedgeOrder(e1, id, "SELL", MIN_BID_NEARST_TICK, volume)
    ELSE e

HedgeFilledMessageHandler(e, clientOrderId, price, volume) == e

TradeTicksMessageHandler(e, instrument) == e

(***************************************************************************)
(* Book updates.  askPrice, askVolume, bidPrice, bidVolume are level 0 of  *)
(* the message's arrays, the only level the handler reads.                 *)
(***************************************************************************)
\* as FutureBranch, but cancelling the ask the way cancelOrder does: the
\* side's id and price are dropped with the cancel
FutureBranchDropsAsk(e, askPrice, askVolume, bidPrice, bidVolume) ==
    LET e1 == IF e.mAskPrice # 0
                 /\ (askPrice = 0 \/ e.mAskPrice < ULong(askPrice + FUT_CLEARANCE))
              THEN [SendCancelOrder(e, e.mAskId) EXCEPT !.mAskId = 0, !.mAskPrice = 0]
              ELSE e
        e2 == IF e1.mBidPrice # 0
                 /\ (bidPrice = 0 \/ e1.mBidPrice > ULong(bidPrice - FUT_CLEARANCE))
              THEN SendCancelOrder(e1, e1.mBidId) ELSE e1
    IN  [e2 EXCEPT !.futAskPrice = askPrice, !.futAskVol = askVolume,
                   !.futBidPrice = bidPrice, !.futBidVol = bidVolume]

\* the FUTURE branch: cancel quotes the new reference makes bad, then store it
FutureBranch(e, askPrice, askVolume, bidPrice, bidVolume) ==
    LET e1 == IF askPrice = 0 /\ e.mAskPrice # 0
              THEN SendCancelOrder(e, e.mAskId) ELSE e
        e2 == IF e1.mAskPrice # 0 /\ askPrice # 0
                 /\ e1.mAskPrice < ULong(askPrice + FUT_CLEARANCE)
              THEN SendCancelOrder(e1, e1.mAskId) ELSE e1
        e3 == IF bidPrice = 0 /\ e2.mBidPrice # 0
              THEN SendCancelOrder(e2, e2.mBidId) ELSE e2
        e4 == IF e3.mBidPrice # 0 /\ bidPrice # 0
                 /\ e3.mBidPrice > ULong(bidPrice - FUT_CLEARANCE)
              THEN SendCancelOrder(e3, e3.mBidId) ELSE e3
    IN  [e4 EXCEPT !.futAskPrice = askPrice, !.futAskVol = askVolume,
                   !.futBidPrice = bidPrice, !.futBidVol = bidVolume]

\* the ask half of the ETF branch
EtfAskBranch(e, askPrice) ==
    IF e.mAskId = 0
    THEN IF e.futAskPrice # 0 THEN makeAsk(e, askPrice) ELSE e
    ELSE LET \* widen the spread: cancel and insert at once, mAskPrice is kept
             id == e.mNextMessageId + 1
             c1 == SendCancelOrder(e, e.mAskId)
             c2 == [c1 EXCEPT !.mAskId = id, !.mNextMessageId = id]
             c3 == [c2 EXCEPT !.mAsks = @ \cup {id}]
             c4 == SendInsertOrder(c3, id, "SELL",
                                   ULong(askPrice - BID_ASK_CLEARANCE),
                                   maxAskVol(c2), "GOOD_FOR_DAY")
             e1 == IF e.mAskPrice < ULong(askPrice - BID_ASK_CLEARANCE)
                   THEN c4 ELSE e
         IN  \* move the ask down
             IF e1.mAskPrice > ULong(askPrice - BID_ASK_CLEARANCE)
                /\ e1.mAskPrice > ULong(e1.futAskPrice + FUT_CLEARANCE)
             THEN makeAsk(SendCancelOrder(e1, e1.mAskId), askPrice)
             ELSE e1

\* the bid half of the ETF branch
EtfBidBranch(e, bidPrice) ==
    IF e.mBidId = 0
    THEN IF e.futBidPrice # 0 THEN makeBid(e, bidPrice) ELSE e
    ELSE LET \* widen the spread: cancel and insert at once, mBidPrice is kept
             id == e.mNextMessageId + 1
             c1 == SendCancelOrder(e, e.mBidId)
             c2 == [c1 EXCEPT !.mBidId = id, !.mNextMessageId = id]
             c3 == SendInsertOrder(c2, id, "BUY",
                                   ULong(bidPrice + BID_ASK_CLEARANCE),
                                   maxBidVol(c2), "GOOD_FOR_DAY")
             c4 == [c3 EXCEPT !.mBids = @ \cup {id}]
             e1 == IF e.mBidPrice > ULong(bidPrice + BID_ASK_CLEARANCE)
                   THEN c4 ELSE e
         IN  \* move the bid up
             IF e1.mBidPrice < ULong(bidPrice + BID_ASK_CLEARANCE)
                /\ e1.mBidPrice < ULong(e1.futBidPrice - FUT_CLEARANCE)
             THEN makeBid(SendCancelOrder(e1, e1.mBidId), bidPrice)
             ELSE e1

OrderBookMessageHandler(e, instrument, askPrice, askVolume, bidPrice, bidVolume) ==
    IF instrument = "FUTURE"
    THEN FutureBranch(e, askPrice, askVolume, bidPrice, bidVolume)
    ELSE EtfBidBranch(EtfAskBranch(e, askPrice), bidPrice)

(***************************************************************************)
(* The exchange's view of the engine's orders: orders[id] exists once the  *)
(* insert for id was sent.  rem is the volume not yet filled, cancelReq    *)
(* says that a cancel for id was sent, done that the terminal order status *)
(* was delivered.                                                          *)
(***************************************************************************)
RECURSIVE Gateway(_, _, _)
Gateway(ords, out, i) ==
    IF i > Len(out) THEN ords
    ELSE LET c == out[i]
             next ==
               IF c.cmd = "insert"
               THEN [k \in DOMAIN ords \cup {c.id} |->
                       IF k = c.id
                       THEN [side |-> c.side, volume |-> c.volume,
                             rem |-> c.volume,
                             cancelReq |-> FALSE, done |-> FALSE]
                       ELSE ords[k]]
               ELSE IF c.cmd = "cancel" /\ c.id \in DOMAIN ords
               THEN [ords EXCEPT ![c.id].cancelReq = TRUE]
               ELSE ords
         IN  Gateway(next, out, i + 1)

\* the message a handler was called with: an order message has the order id,
\* the fill volume and the remaining volume, a book message level 0 of its
\* ask and bid prices
\* the signed volume of the hedge orders among the commands out from the
\* i-th on: a buy counts up, a sell down
RECURSIVE HedgeVolume(_, _)
HedgeVolume(out, i) ==
    IF i > Len(out) THEN 0
    ELSE (IF out[i].cmd # "hedge" THEN 0
          ELSE IF out[i].side = "BUY" THEN out[i].volume ELSE -out[i].volume)
         + HedgeVolume(out, i + 1)

Event(type, id, vol, rem) ==
    [type |-> type, id |-> id, vol |-> vol, rem |-> rem, ask |-> 0, bid |-> 0]

BookEvent(type, book) ==
    [Event(type, 0, 0, 0) EXCEPT !.ask = book[1][1], !.bid = book[2][1]]

\* the members take the handler's result e, the commands go to the gateway
Commit(e, maxId) ==
    /\ e.mNextMessageId <= maxId
    /\ mAskId' = e.mAskId
    /\ mBidId' = e.mBidId
    /\ mAskPrice' = e.mAskPrice
    /\ mBidPrice' = e.mBidPrice
    /\ mAsks' = e.mAsks
    /\ mBids' = e.mBids
    /\ futAskPrice' = e.futAskPrice
    /\ futAskVol' = e.futAskVol
    /\ futBidPrice' = e.futBidPrice
    /\ futBidVol' = e.futBidVol
    /\ etfPosition' = e.etfPosition
    /\ mNextMessageId' = e.mNextMessageId
    /\ mMakeAskAwaitingCancelId' = e.mMakeAskAwaitingCancelId
    /\ mMakeBidAwaitingCancelId' = e.mMakeBidAwaitingCancelId
    /\ sent' = e.out
    /\ hedgeRequested' = hedgeRequested + HedgeVolume(e.out, 1)

\* the state after construction: every member 0 or empty, so that the first
\* id handed out (++mNextMessageId) is 1
Init ==
    /\ mAskId = 0 /\ mBidId = 0
    /\ mAskPrice = 0 /\ mBidPrice = 0
    /\ mAsks = {} /\ mBids = {}
    /\ futAskPrice = 0 /\ futAskVol = 0
    /\ futBidPrice = 0 /\ futBidVol = 0
    /\ etfPosition = 0
    /\ mNextMessageId = 0
    /\ mMakeAskAwaitingCancelId = 0 /\ mMakeBidAwaitingCancelId = 0
    /\ sent = <<>>
    /\ lastEvent = Event("none", 0, 0, 0)
    /\ orders = <<>>
    /\ hedgeRequested = 0

FutureBookUpdate(books, maxId) ==
    \E book \in books :
      /\ Commit(OrderBookMessageHandler(Engine, "FUTURE", book[1][1], book[1][2],
                                        book[2][1], book[2][2]), maxId)
      /\ orders' = Gateway(orders, sent', 1)
      /\ lastEvent' = BookEvent("FutureBook", book)

EtfBookUpdate(books, maxId) ==
    \E book \in books :
      /\ Commit(OrderBookMessageHandler(Engine, "ETF", book[1][1], book[1][2],
                                        book[2][1], book[2][2]), maxId)
      /\ orders' = Gateway(orders, sent', 1)
      /\ lastEvent' = BookEvent("EtfBook", book)

\* a fill of a live order of the engine, within the volume it has left:
\* of all of it, or of one of the volumes in partial
OrderFilled(partial, maxId) ==
    \E id \in DOMAIN orders :
      \E volume \in (partial \cup {orders[id].rem}) :
        /\ ~orders[id].done
        /\ 1 <= volume /\ volume <= orders[id].rem
        /\ LET e == OrderFilledMessageHandler(Engine, id, 0, volume)
           IN  /\ -PosCap <= e.etfPosition /\ e.etfPosition <= PosCap
               /\ Commit(e, maxId)
        /\ orders' = [orders EXCEPT ![id].rem = @ - volume]
        /\ lastEvent' = Event("OrderFilled", id, volume, 0)

\* a fill message for an id that is no order of the engine
StrayOrderFilled ==
    \E id \in (0..MaxId) \ DOMAIN orders, volume \in FillVols :
        /\ Commit(OrderFilledMessageHandler(Engine, id, 0, volume), MaxId)
        /\ UNCHANGED orders
        /\ lastEvent' = Event("StrayOrderFilled", id, volume, 0)

\* the status of a live order: terminal (remaining 0) once it is filled or
\* its cancel was requested, else its remaining volume
OrderStatus(maxId) ==
    \E id \in DOMAIN orders :
      \E remainingVolume \in {0, orders[id].rem} :
        /\ ~orders[id].done
        /\ remainingVolume = 0 => (orders[id].rem = 0 \/ orders[id].cancelReq)
        /\ Commit(OrderStatusMessageHandler(Engine, id,
                     orders[id].volume - orders[id].rem, remainingVolume, 0), maxId)
        /\ orders' = IF remainingVolume = 0
                     THEN [orders EXCEPT ![id].done = TRUE]
                     ELSE orders
        /\ lastEvent' = Event("OrderStatus", id, 0, remainingVolume)

\* a repeated terminal status, or a terminal status for an id that is no order
StaleOrderStatus ==
    \E id \in 0..MaxId :
        /\ id \in DOMAIN orders => orders[id].done
        /\ Commit(OrderStatusMessageHandler(Engine, id, 0, 0, 0), MaxId)
        /\ UNCHANGED orders
        /\ lastEvent' = Event("StaleOrderStatus", id, 0, 0)

\* an error message: for any id, or for none (id 0)
ErrorMessage ==
    \E id \in 0..MaxId :
        /\ Commit(ErrorMessageHandler(Engine, id), MaxId)
        /\ UNCHANGED orders
        /\ lastEvent' = Event("Error", id, 0, 0)

HedgeFilled ==
    /\ Commit(HedgeFilledMessageHandler(Engine, 0, 0, LOT_SIZE), MaxId)
    /\ UNCHANGED orders
    /\ lastEvent' = Event("HedgeFilled", 0, LOT_SIZE, 0)

TradeTicks ==
    \E instrument \in {"FUTURE", "ETF"} :
        /\ Commit(TradeTicksMessageHandler(Engine, instrument), MaxId)
        /\ UNCHANGED orders
        /\ lastEvent' = Event("TradeTicks", 0, 0, 0)

Next ==
    \/ FutureBookUpdate(FutBooks, MaxId)
    \/ EtfBookUpdate(EtfBooks, MaxId)
    \/ OrderFilled({}, MaxId)
    \/ StrayOrderFilled
    \/ OrderStatus(MaxId)
    \/ StaleOrderStatus
    \/ ErrorMessage
    \/ HedgeFilled
    \/ TradeTicks

Spec == Init /\ [][Next]_vars

(***************************************************************************)
(* The engine quoting asks only, against a reference ask that moves up and *)
(* down, with partial fills and order statuses: deep enough in ids for the *)
(* position to run to the limit.                                           *)
(***************************************************************************)
DeepFutBooks == {<<Quote(400), NoQuote>>, <<Quote(600), NoQuote>>}
DeepEtfBooks == {<<Quote(500), NoQuote>>, <<Quote(700), NoQuote>>}

NextDeep ==
    \/ FutureBookUpdate(DeepFutBooks, MaxDeepId)
    \/ EtfBookUpdate(DeepEtfBooks, MaxDeepId)
    \/ OrderFilled(FillVols, MaxDeepId)
    \/ OrderStatus(MaxDeepId)

SpecDeep == Init /\ [][NextDeep]_vars

(***************************************************************************)
(* The engine against books that cross: a primary bid above the reference  *)
(* ask, a primary ask below the reference bid, and a reference bid less    *)
(* than three ticks above 0.                                               *)
(***************************************************************************)
CrossFutBooks == {<<Quote(400), Quote(200)>>, <<Quote(600), Quote(400)>>}
CrossEtfBooks == {<<Quote(700), Quote(500)>>, <<Quote(300), NoQuote>>}

NextCross ==
    \/ FutureBookUpdate(CrossFutBooks, MaxCrossId)
    \/ EtfBookUpdate(CrossEtfBooks, MaxCrossId)
    \/ OrderFilled({}, MaxCrossId)
    \/ OrderStatus(MaxCrossId)

SpecCross == Init /\ [][NextCross]_vars

(***************************************************************************)
(* Properties.                                                             *)
(***************************************************************************)
\* the insert commands of the last handler
Inserts == {sent[i] : i \in {j \in 1..Len(sent) : sent[j].cmd = "insert"}}

\* C1: for each side, the active index holds at most one order id, at all
\* times, also while a cancel is unconfirmed and the replacement is inserted
C1_OneActiveOrderPerSide ==
    Cardinality(mAsks) <= 1 /\ Cardinality(mBids) <= 1

\* C2: whatever fills arrive within the volumes of the submitted orders, the
\* primary position stays within the position limit
C2_PositionWithinLimit ==
    -POSITION_LIMIT <= etfPosition /\ etfPosition <= POSITION_LIMIT

\* C3: every fill of an order the engine submitted moves etfPosition by the
\* fill volume (down for a sell, up for a buy), whatever came before; a fill
\* for an id the engine never submitted leaves it alone
C3_EveryFillApplied ==
    [][/\ lastEvent'.type = "OrderFilled" =>
            etfPosition' = etfPosition +
                (IF orders[lastEvent'.id].side = "SELL"
                 THEN -lastEvent'.vol ELSE lastEvent'.vol)
       /\ lastEvent'.type = "StrayOrderFilled" => etfPosition' = etfPosition]_vars

\* the order inserted in place of the cancelled order id: the next order of
\* its side
Replacement(id) ==
    {r \in DOMAIN orders :
        /\ r > id /\ orders[r].side = orders[id].side
        /\ \A q \in DOMAIN orders :
              (q > id /\ orders[q].side = orders[id].side) => r <= q}

\* C4: when a fill of volume f arrives for an order whose cancel is requested
\* and not yet confirmed, the replacement on that side has volume
\* capacity - f, with the capacity of after the fill, and there is none when
\* f >= capacity
C4_ReplacementNetOfFill ==
    [][(/\ lastEvent'.type = "OrderFilled"
        /\ orders[lastEvent'.id].cancelReq
        /\ ~orders[lastEvent'.id].done)
       => LET f == lastEvent'.vol
              capacity == IF orders[lastEvent'.id].side = "SELL"
                          THEN maxAskVol(Engine') ELSE maxBidVol(Engine')
          IN  \A r \in Replacement(lastEvent'.id) :
                 f < capacity /\ orders[r].volume = capacity - f]_vars

\* C5: a primary-book update submits no sell while the stored reference ask
\* is 0 and no buy while the stored reference bid is 0
C5_NoQuoteWithoutReference ==
    lastEvent.type = "EtfBook" =>
        \A c \in Inserts :
            /\ c.side = "SELL" => futAskPrice # 0
            /\ c.side = "BUY" => futBidPrice # 0

\* C6: every order submitted has volume >= 1
C6_NoZeroVolumeOrder ==
    \A c \in Inserts : c.volume >= 1

\* C7: every sell submitted on a primary-book update is priced at or above
\* futAskPrice + FUT_CLEARANCE, every buy at or below futBidPrice - FUT_CLEARANCE
C7_PriceKeepsClearance ==
    lastEvent.type = "EtfBook" =>
        \A c \in Inserts :
            /\ c.side = "SELL" => c.price >= futAskPrice + FUT_CLEARANCE
            /\ c.side = "BUY" => c.price <= futBidPrice - FUT_CLEARANCE

\* the last message was a terminal order status (remainingVolume 0)
TerminalStatus(ev) ==
    ev.type \in {"OrderStatus", "StaleOrderStatus"} /\ ev.rem = 0

\* C8: a terminal order status for an id that is in neither active index and
\* is the current id of neither side changes no member and sends nothing;
\* so the same terminal status a second time leaves the state of the first
C8_TerminalStatusReplayed ==
    [][/\ (/\ TerminalStatus(lastEvent')
           /\ lastEvent'.id \notin (mAsks \cup mBids \cup {mAskId, mBidId}))
          => (UNCHANGED engineVars /\ sent' = <<>>)
       /\ (/\ TerminalStatus(lastEvent') /\ TerminalStatus(lastEvent)
           /\ lastEvent'.id = lastEvent.id)
          => (UNCHANGED engineVars /\ sent' = <<>>)]_vars

\* C8 happens: the terminal status of an order that is done has come again
C8_Witness ==
    /\ lastEvent.type = "StaleOrderStatus"
    /\ lastEvent.id \in DOMAIN orders
    /\ orders[lastEvent.id].done
    /\ lastEvent.id \notin (mAsks \cup mBids \cup {mAskId, mBidId})

\* C9: an error for id 0 or for an id in neither active index changes no
\* member and sends nothing; an error for an id in an active index does what
\* a terminal order status for that id does
C9_ErrorAsTerminalStatus ==
    [][lastEvent'.type = "Error" =>
          /\ sent' = <<>>
          /\ IF lastEvent'.id = 0 \/ lastEvent'.id \notin (mAsks \cup mBids)
             THEN UNCHANGED engineVars
             ELSE Engine' = [Engine EXCEPT
                                !.mAskId = IF @ = lastEvent'.id THEN 0 ELSE @,
                                !.mBidId = IF @ = lastEvent'.id THEN 0 ELSE @,
                                !.mAsks = @ \ {lastEvent'.id},
                                !.mBids = @ \ {lastEvent'.id}]]_vars

\* C9 happens: an error has come for an order that the exchange holds live
\* and uncancelled, and the engine has let go of it
C9_Witness ==
    /\ lastEvent.type = "Error"
    /\ lastEvent.id \in DOMAIN orders
    /\ ~orders[lastEvent.id].done /\ ~orders[lastEvent.id].cancelReq
    /\ lastEvent.id \notin (mAsks \cup mBids \cup {mAskId, mBidId})
    /\ sent = <<>>

\* C10 as stated: a reference book update sends no command at all and
\* changes nothing but the stored reference top-of-book
C10_ReferenceUpdateSendsNothing ==
    [][lastEvent'.type = "FutureBook" =>
          /\ sent' = <<>>
          /\ UNCHANGED <<mAskId, mBidId, mAsks, mBids, mAskPrice, mBidPrice,
                         etfPosition, mNextMessageId>>]_vars

\* C10 amended: a reference book update stores the book's top as the
\* reference, sends no insert, amend or hedge, sends at most one cancel for
\* mAskId and one for mBidId, and none for a side whose stored quote price
\* is 0, and changes no other member
C10_ReferenceUpdateOnlyCancels ==
    [][lastEvent'.type = "FutureBook" =>
          /\ sent' \in {<<>>, <<CancelCmd(mAskId)>>, <<CancelCmd(mBidId)>>,
                        <<CancelCmd(mAskId), CancelCmd(mBidId)>>}
          /\ (mAskPrice = 0 /\ mBidPrice = 0) => sent' = <<>>
          /\ \E book \in FutBooks \cup DeepFutBooks :
                <<futAskPrice', futAskVol', futBidPrice', futBidVol'>>
                    = <<book[1][1], book[1][2], book[2][1], book[2][2]>>
          /\ UNCHANGED <<mAskId, mBidId, mAsks, mBids, mAskPrice, mBidPrice,
                         etfPosition, mNextMessageId,
                         mMakeAskAwaitingCancelId, mMakeBidAwaitingCancelId>>]_vars

\* C10 happens: a reference book update has sent the cancel of a live order
C10_Witness ==
    /\ lastEvent.type = "FutureBook"
    /\ \E i \in 1..Len(sent) :
          /\ sent[i].cmd = "cancel"
          /\ sent[i].id \in DOMAIN orders
          /\ ~orders[sent[i].id].done

\* the insert commands for one side among the commands out
InsertsOf(out, side) ==
    {i \in 1..Len(out) : out[i].cmd = "insert" /\ out[i].side = side}

\* out holds exactly one insert for side, a GOOD_FOR_DAY order of that price
\* and volume
OneQuote(out, side, price, volume) ==
    /\ Cardinality(InsertsOf(out, side)) = 1
    /\ \A i \in InsertsOf(out, side) :
          /\ out[i].price = price /\ out[i].volume = volume
          /\ out[i].lifespan = "GOOD_FOR_DAY"

\* C11 as stated: a primary-book update with no current ask, a nonzero
\* reference ask and (POSITION_LIMIT + p)/2 > 0 submits exactly one
\* GOOD_FOR_DAY sell at futAskPrice + FUT_CLEARANCE of volume
\* (POSITION_LIMIT + p)/2, whatever the book's own best ask; likewise one buy
\* at futBidPrice - FUT_CLEARANCE of volume (POSITION_LIMIT - p)/2
C11_QuoteAtReferenceClearance ==
    [][lastEvent'.type = "EtfBook" =>
          /\ (mAskId = 0 /\ futAskPrice # 0
                /\ (POSITION_LIMIT + etfPosition) \div 2 > 0)
             => OneQuote(sent', "SELL", futAskPrice + FUT_CLEARANCE,
                         (POSITION_LIMIT + etfPosition) \div 2)
          /\ (mBidId = 0 /\ futBidPrice # 0
                /\ (POSITION_LIMIT - etfPosition) \div 2 > 0)
             => OneQuote(sent', "BUY", futBidPrice - FUT_CLEARANCE,
                         (POSITION_LIMIT - etfPosition) \div 2)]_vars

\* C11 amended: the sell is priced three clearances above the reference ask
\* when the primary book has no ask, else at the greater of reference ask +
\* clearance and the book's best ask - clearance; the buy three ticks below
\* the reference bid when the book has no bid, else at the lesser of
\* reference bid - clearance and the book's best bid + clearance (all in
\* unsigned long); volumes and lifespan as stated
C11_QuoteAtMakePrice ==
    [][lastEvent'.type = "EtfBook" =>
          /\ (mAskId = 0 /\ futAskPrice # 0
                /\ (POSITION_LIMIT + etfPosition) \div 2 > 0)
             => OneQuote(sent', "SELL",
                         IF lastEvent'.ask = 0
                         THEN ULong(futAskPrice + 3 * FUT_CLEARANCE)
                         ELSE StdMax(ULong(futAskPrice + FUT_CLEARANCE),
                                     ULong(lastEvent'.ask - BID_ASK_CLEARANCE)),
                         (POSITION_LIMIT + etfPosition) \div 2)
          /\ (mBidId = 0 /\ futBidPrice # 0
                /\ (POSITION_LIMIT - etfPosition) \div 2 > 0)
             => OneQuote(sent', "BUY",
                         IF lastEvent'.bid = 0
                         THEN ULong(futBidPrice - 3 * TICK_SIZE_IN_CENTS)
                         ELSE StdMin(ULong(futBidPrice - FUT_CLEARANCE),
                                     ULong(lastEvent'.bid + BID_ASK_CLEARANCE)),
                         (POSITION_LIMIT - etfPosition) \div 2)]_vars

\* C11 happens: a primary-book update with neither an ask nor a bid has
\* opened both sides, three clearances away from the reference
C11_Witness ==
    /\ lastEvent.type = "EtfBook" /\ lastEvent.ask = 0 /\ lastEvent.bid = 0
    /\ Len(sent) = 2
    /\ OneQuote(sent, "SELL", futAskPrice + 3 * FUT_CLEARANCE,
                (POSITION_LIMIT + etfPosition) \div 2)
    /\ OneQuote(sent, "BUY", futBidPrice - 3 * TICK_SIZE_IN_CENTS,
                (POSITION_LIMIT - etfPosition) \div 2)

\* out holds exactly one IMMEDIATE_OR_CANCEL insert, for side at that price
\* and volume
OneImmediate(out, side, price, volume) ==
    LET ioc == {i \in 1..Len(out) : /\ out[i].cmd = "insert"
                                    /\ out[i].lifespan = "IMMEDIATE_OR_CANCEL"}
    IN  /\ Cardinality(ioc) = 1
        /\ \A i \in ioc : /\ out[i].side = side /\ out[i].price = price
                           /\ out[i].volume = volume

\* C12: a primary-book update whose best bid exceeds the stored reference
\* ask, with room to sell, submits one IMMEDIATE_OR_CANCEL sell at that bid
\* for the lesser of the bid's volume and the room; likewise a buy at a best
\* ask below the stored reference bid.  (A quoted level has LOT_SIZE lots.)
C12_CrossingTakenImmediately ==
    [][lastEvent'.type = "EtfBook" =>
          /\ (/\ futAskPrice # 0 /\ lastEvent'.bid > futAskPrice
               /\ POSITION_LIMIT + etfPosition > 0)
             => OneImmediate(sent', "SELL", lastEvent'.bid,
                             StdMin(LOT_SIZE, POSITION_LIMIT + etfPosition))
          /\ (/\ lastEvent'.ask # 0 /\ lastEvent'.ask < futBidPrice
               /\ POSITION_LIMIT - etfPosition > 0)
             => OneImmediate(sent', "BUY", lastEvent'.ask,
                             StdMin(LOT_SIZE, POSITION_LIMIT - etfPosition))]_vars

\* the hedge commands among the commands out
Hedges(out) == {i \in 1..Len(out) : out[i].cmd = "hedge"}

\* C13 as stated: a hedge order is sent only while a primary-book update is
\* handled, never while a fill is handled
C13_HedgeOnlyOnBookTick ==
    [][Hedges(sent') # {} => lastEvent'.type = "EtfBook"]_vars

\* C13 amended: a hedge order is sent only while a fill of an order in an
\* active index is handled, and each such fill sends exactly one: a buy at
\* MAX_ASK_NEAREST_TICK for a filled ask, a sell at MIN_BID_NEARST_TICK for
\* a filled bid, of the fill's volume, under the next message id; a fill
\* for any other id sends nothing
C13_HedgeOnEveryFill ==
    [][/\ Hedges(sent') # {} =>
            /\ lastEvent'.type = "OrderFilled"
            /\ lastEvent'.id \in mAsks \cup mBids
       /\ lastEvent'.type \in {"OrderFilled", "StrayOrderFilled"} =>
            sent' = IF lastEvent'.id \in mAsks
                    THEN <<HedgeCmd(mNextMessageId + 1, "BUY",
                                    MAX_ASK_NEAREST_TICK, lastEvent'.vol)>>
                    ELSE IF lastEvent'.id \in mBids
                    THEN <<HedgeCmd(mNextMessageId + 1, "SELL",
                                    MIN_BID_NEARST_TICK, lastEvent'.vol)>>
                    ELSE <<>>]_vars

\* C13 happens: the fill of a resting ask has sent a buy hedge of its volume
C13_Witness ==
    /\ lastEvent.type = "OrderFilled"
    /\ orders[lastEvent.id].side = "SELL"
    /\ Len(sent) = 1
    /\ sent[1].cmd = "hedge" /\ sent[1].side = "BUY"
    /\ sent[1].volume = lastEvent.vol /\ lastEvent.vol > 0

\* C14: between events, the signed sum of the volumes of all hedge orders
\* requested (buys up, sells down) is -etfPosition
C14_HedgesMirrorPosition ==
    hedgeRequested = -etfPosition

\* C14 happens: a bid has filled and was hedged with a sell, leaving the
\* engine long in the primary instrument
C14_Witness ==
    /\ lastEvent.type = "OrderFilled"
    /\ orders[lastEvent.id].side = "BUY"
    /\ Hedges(sent) # {}
    /\ etfPosition > 0 /\ hedgeRequested < 0

\* C15: after an order status with remaining volume 0 for id X, X is in
\* neither active index, the side whose current id was X has current id 0
\* and a side whose current id differs from X keeps it; an order status with
\* remaining volume above 0 changes no member
C15_TerminalStatusFreesItsSide ==
    [][lastEvent'.type \in {"OrderStatus", "StaleOrderStatus"} =>
          IF lastEvent'.rem = 0
          THEN /\ lastEvent'.id \notin mAsks' \cup mBids'
               /\ mAskId' = IF mAskId = lastEvent'.id THEN 0 ELSE mAskId
               /\ mBidId' = IF mBidId = lastEvent'.id THEN 0 ELSE mBidId
          ELSE UNCHANGED engineVars]_vars

\* C15 happens: the terminal status of a cancelled ask has arrived after its
\* replacement was inserted, and the replacement is still the current ask
C15_Witness ==
    /\ lastEvent.type = "OrderStatus" /\ lastEvent.rem = 0
    /\ orders[lastEvent.id].side = "SELL" /\ orders[lastEvent.id].cancelReq
    /\ mAskId > lastEvent.id
    /\ mAskId \in mAsks /\ lastEvent.id \notin mAsks

\* out holds an insert for side under the id, and no cancel
FreshOrder(out, side, id) ==
    /\ \E i \in InsertsOf(out, side) : out[i].id = id
    /\ \A i \in 1..Len(out) : out[i].cmd # "cancel"

\* C16: a side left without a current order (by an error or a terminal
\* status for its order) gets a fresh order, which becomes its current
\* order, on the next primary-book update at which the side's stored
\* reference price is nonzero and its capacity is positive
C16_FreeSideQuotedAgain ==
    [][lastEvent'.type = "EtfBook" =>
          /\ (mAskId = 0 /\ futAskPrice # 0 /\ maxAskVol(Engine) > 0)
             => (/\ mAskId' # 0 /\ mAskId' \in mAsks'
                 /\ \E i \in InsertsOf(sent', "SELL") : sent'[i].id = mAskId')
          /\ (mBidId = 0 /\ futBidPrice # 0 /\ maxBidVol(Engine) > 0)
             => (/\ mBidId' # 0 /\ mBidId' \in mBids'
                 /\ \E i \in InsertsOf(sent', "BUY") : sent'[i].id = mBidId')]_vars

\* C16 happens: an ask the exchange still holds was given up on an error,
\* and the primary-book update after it has inserted a fresh ask
C16_Witness ==
    /\ lastEvent.type = "EtfBook"
    /\ FreshOrder(sent, "SELL", mAskId)
    /\ \E x \in DOMAIN orders :
          /\ orders[x].side = "SELL" /\ x < mAskId
          /\ ~orders[x].done /\ ~orders[x].cancelReq
          /\ x \notin mAsks

\* C17: every cancel sent names a nonzero order id that is in the active ask
\* or bid index; none names id 0 or an order that is done
C17_CancelNamesActiveOrder ==
    \A i \in 1..Len(sent) :
        sent[i].cmd = "cancel" =>
            /\ sent[i].id # 0
            /\ sent[i].id \in mAsks \cup mBids
            /\ sent[i].id \in DOMAIN orders => ~orders[sent[i].id].done

\* C18: while a side has a current order, its recorded quote price is the
\* price that order was submitted at; stated where the order is submitted:
\* the insert of the order that is now current carries the recorded price
C18_QuotePriceIsOrderPrice ==
    \A c \in Inserts :
        /\ (c.side = "SELL" /\ c.id = mAskId) => c.price = mAskPrice
        /\ (c.side = "BUY" /\ c.id = mBidId) => c.price = mBidPrice

\* C19: a nonzero current order id is in its side's active index, the two
\* active indexes are disjoint, and every id in an index is at most
\* mNextMessageId
C19_CurrentIdsIndexed ==
    /\ mAskId # 0 => mAskId \in mAsks
    /\ mBidId # 0 => mBidId \in mBids
    /\ mAsks \cap mBids = {}
    /\ \A id \in mAsks \cup mBids : id <= mNextMessageId

\* C19 happens: the ask has ended (terminal status or error) and left its
\* index while the bid inserted after it is still current
C19_Witness ==
    /\ mAskId = 0 /\ mAsks = {}
    /\ mBidId # 0 /\ mBids = {mBidId}
    /\ \E x \in DOMAIN orders : orders[x].side = "SELL" /\ x < mBidId

\* x is the result of an unsigned long expression that was negative before
\* truncation: the unwrapped prices and volumes of the model are below 2^11
\* and a wrapped one, also when halved, is above a quarter of the modulus
Wrapped(x) == x >= ULONG_MODULUS \div 4

\* C20: no price and no volume of an order sent to the gateway is the
\* result of unsigned wraparound, whatever the books (price 0 = no quote
\* included) and the position
C20_NoWraparoundSent ==
    \A c \in Inserts : ~Wrapped(c.price) /\ ~Wrapped(c.volume)

====
